---- MODULE Spec2Model ----
(***************************************************************************)
(* Report comment generator: the comment engine of app (2).py in its       *)
(* successive revisions (src/unnamed/part_000) over the statement banks of *)
(* src/statements_*.py.                                                    *)
(*                                                                         *)
(* Texts are strings.  Ch(s, i) is the i-th character (1-based) as a       *)
(* one-character string.  Python's 0-based slices s[:n] are written        *)
(* SubSeq(s, 1, n).  Two characters outside ASCII are written with a       *)
(* stand-in: "~" is U+2019 (right single quotation mark) and "^" is U+00DF *)
(* (sharp s, a lower-case letter whose title case is the two letters Ss).  *)
(***************************************************************************)
EXTENDS Integers, Sequences, FiniteSets, TLC

Ch(s, i) == SubSeq(s, i, i)

Min(A) == CHOOSE a \in A : \A b \in A : a <= b

CharsOf(s) == {Ch(s, i) : i \in 1..Len(s)}

LowerStr == "abcdefghijklmnopqrstuvwxyz"

UpperStr == "ABCDEFGHIJKLMNOPQRSTUVWXYZ"

DigitStr == "0123456789"

LowerSet == CharsOf(LowerStr)

UpperSet == CharsOf(UpperStr)

DigitSet == CharsOf(DigitStr)

(* ---------------- Python string primitives used by the code ------------- *)

SharpS == "^"

isalnum(c) == c \in LowerSet \/ c \in UpperSet \/ c \in DigitSet \/ c = SharpS

islower(c) == c \in LowerSet \/ c = SharpS

lower_ch(c) ==
    IF c \in UpperSet THEN Ch(LowerStr, CHOOSE i \in 1..26 : Ch(UpperStr, i) = c) ELSE c

upper_ch(c) ==
    IF c \in LowerSet THEN Ch(UpperStr, CHOOSE i \in 1..26 : Ch(LowerStr, i) = c) ELSE c

(* the title case of a character: the upper case but for sharp s *)
title_case_ch(c) == IF c = SharpS THEN "Ss" ELSE upper_ch(c)

(* str.lower() of s[lo..hi], by halves *)
RECURSIVE lower_range(_, _, _)
lower_range(s, lo, hi) ==
    IF lo > hi THEN ""
    ELSE IF lo = hi THEN lower_ch(Ch(s, lo))
    ELSE LET mid == (lo + hi) \div 2
         IN lower_range(s, lo, mid) \o lower_range(s, mid + 1, hi)

str_lower(s) == lower_range(s, 1, Len(s))

(* str.capitalize(): first character upper case, the rest lower case *)
str_capitalize(s) == IF s = "" THEN "" ELSE title_case_ch(Head(s)) \o str_lower(Tail(s))

(* str.title(): a cased character is upper-cased when the character before  *)
(* it is not cased, lower-cased otherwise; uncased characters are kept.     *)
is_cased(c) == c \in LowerSet \/ c \in UpperSet \/ c = SharpS

title_ch(s, i) ==
    LET c == Ch(s, i)
    IN IF ~is_cased(c) THEN c
       ELSE IF i > 1 /\ is_cased(Ch(s, i - 1)) THEN lower_ch(c)
       ELSE title_case_ch(c)

RECURSIVE title_range(_, _, _)
title_range(s, lo, hi) ==
    IF lo > hi THEN ""
    ELSE IF lo = hi THEN title_ch(s, lo)
    ELSE LET mid == (lo + hi) \div 2
         IN title_range(s, lo, mid) \o title_range(s, mid + 1, hi)

str_title(s) == title_range(s, 1, Len(s))

(* s.rstrip(chars): drop the trailing characters that are in chars *)
str_rstrip(s, chars) ==
    LET n == Len(s)
    IN IF \A i \in 1..n : Ch(s, i) \in chars THEN ""
       ELSE SubSeq(s, 1, CHOOSE i \in 1..n :
                            /\ Ch(s, i) \notin chars
                            /\ \A j \in (i + 1)..n : Ch(s, j) \in chars)

Whitespace == {" "}

(* s.lstrip(): drop the leading whitespace *)
str_lstrip(s) ==
    LET n == Len(s)
    IN IF \A i \in 1..n : Ch(s, i) \in Whitespace THEN ""
       ELSE SubSeq(s, CHOOSE i \in 1..n :
                         /\ Ch(s, i) \notin Whitespace
                         /\ \A j \in 1..(i - 1) : Ch(s, j) \in Whitespace, n)

(* s.strip(): drop leading and trailing whitespace *)
str_strip(s) == str_lstrip(str_rstrip(s, Whitespace))

endswith(s, c) == Len(s) > 0 /\ Ch(s, Len(s)) = c

contains(s, c) == \E i \in 1..Len(s) : Ch(s, i) = c

(* s.rfind(c) + 1: the 1-based position of the last c, 0 when there is none *)
rfind1(s, c) ==
    IF ~contains(s, c) THEN 0
    ELSE CHOOSE i \in 1..Len(s) : Ch(s, i) = c /\ \A j \in (i + 1)..Len(s) : Ch(s, j) # c

(* " ".join(parts), the empty parts kept, for comparison *)
RECURSIVE join_all(_)
join_all(parts) ==
    IF parts = << >> THEN ""
    ELSE IF Len(parts) = 1 THEN Head(parts)
    ELSE Head(parts) \o " " \o join_all(Tail(parts))

(* " ".join([c for c in parts if c]) *)
RECURSIVE join_nonempty(_)
join_nonempty(parts) ==
    IF parts = << >> THEN ""
    ELSE LET rest == join_nonempty(Tail(parts))
         IN IF Head(parts) = "" THEN rest
            ELSE IF rest = "" THEN Head(parts)
            ELSE Head(parts) \o " " \o rest

(* ---------------- Settings ---------------------------------------------- *)

TARGET_CHARS == 499

sanitize_max_length == 100

(* ---------------- Statement banks ---------------------------------------- *)
(* A band-indexed bank is the list of its (band, fragment) items in the      *)
(* order the dict literal lists them, which is the order list(bank.keys())   *)
(* iterates in.  The one non-ASCII character of the banks, U+2019 in         *)
(* "authors' choices", is written ~ : like U+2019 it is neither alphanumeric *)
(* nor a word character nor stripped by any rstrip of the code.              *)

keys(bank) == [i \in 1..Len(bank) |-> bank[i][1]]

KeySet(bank) == {bank[i][1] : i \in 1..Len(bank)}

(* bank[k]; the callers guard the KeyError case with KeySet *)
Lookup(bank, k) == bank[CHOOSE i \in 1..Len(bank) : bank[i][1] = k][2]

(* bank.get(k, "") *)
GetOrEmpty(bank, k) == IF k \in KeySet(bank) THEN Lookup(bank, k) ELSE ""

eng5_opening ==
    << "During Year 5 English lessons, {} consistently",
       "Over the term, {} has",
       "{} has demonstrated steady effort and focus in" >>

eng5_attitude ==
    << <<90, "shown outstanding enthusiasm and participation in class activities">>,
       <<85, "been very motivated and engaged with lessons">>,
       <<80, "participated well and shown interest in learning">>,
       <<75, "shown satisfactory effort in lessons">>,
       <<70, "been willing to try tasks with some support">>,
       <<65, "needed occasional encouragement to engage fully">>,
       <<60, "required guidance to maintain focus">>,
       <<55, "found it challenging to participate consistently">>,
       <<40, "needed significant support to take part in activities">> >>

eng5_reading ==
    << <<90, "can confidently read a range of texts, understanding key ideas and themes">>,
       <<85, "reads most texts fluently and can explain main ideas">>,
       <<80, "reads confidently and identifies key points with some support">>,
       <<75, "understands main ideas in texts when prompted">>,
       <<70, "can follow simple texts and answer basic questions">>,
       <<65, "requires help to understand texts and key details">>,
       <<60, "needs support to read and understand short passages">>,
       <<55, "struggles to recall main points from reading">>,
       <<40, "requires close guidance to make sense of simple texts">> >>

eng5_writing ==
    << <<90, "writes clear, detailed paragraphs using varied vocabulary and punctuation">>,
       <<85, "produces well-structured sentences with correct punctuation">>,
       <<80, "writes sentences that are mostly clear and structured">>,
       <<75, "can write simple paragraphs with some support">>,
       <<70, "writes basic sentences and ideas with guidance">>,
       <<65, "needs support to organise ideas in writing">>,
       <<60, "struggles to form coherent sentences">>,
       <<55, "requires help to express ideas clearly in writing">>,
       <<40, "needs significant support to write simple sentences">> >>

eng5_reading_target ==
    << <<90, "explore a wider range of texts independently, summarising ideas">>,
       <<85, "develop inference skills and discuss authors~ choices">>,
       <<80, "practice explaining key points and answering questions">>,
       <<75, "focus on understanding main ideas and supporting details">>,
       <<70, "read short texts and practise answering comprehension questions">>,
       <<65, "develop confidence in reading with support">>,
       <<60, "focus on understanding sentences and short passages">>,
       <<55, "practice recalling information from texts with guidance">>,
       <<40, "work on reading and understanding simple sentences daily">> >>

eng5_writing_target ==
    << <<90, "experiment with more complex sentences and rich vocabulary">>,
       <<85, "improve paragraph structure and punctuation accuracy">>,
       <<80, "focus on clear sentences and organising ideas">>,
       <<75, "practice writing complete paragraphs with guidance">>,
       <<70, "work on writing simple sentences independently">>,
       <<65, "focus on forming sentences and organising ideas">>,
       <<60, "practice using basic punctuation and sentence structure">>,
       <<55, "develop confidence in expressing ideas in writing">>,
       <<40, "work on forming complete sentences and basic vocabulary">> >>

eng5_closer ==
    << "With continued effort, {} is expected to make steady progress next term.",
       "{} will benefit from regular practice and support to reach their potential.",
       "Further encouragement and practice will help {} develop their reading and writing skills." >>

sci7_opening ==
    << "This term,",
       "Throughout this term,",
       "Over the course of this term,",
       "During this term,",
       "In this term,",
       "Over the past term," >>

sci7_attitude ==
    << <<90, "approached lessons with excellent curiosity and initiative, often exploring ideas beyond the classroom">>,
       <<85, "demonstrated high engagement and consistently contributed insightful ideas in practical work">>,
       <<80, "showed enthusiasm for science and applied knowledge confidently in investigations">>,
       <<75, "consistently worked hard in lessons and contributed effectively to class discussions">>,
       <<70, "was attentive in lessons and applied instructions well">>,
       <<65, "showed steady engagement and completed tasks when prompted">>,
       <<60, "required occasional support to stay focused and maintain momentum">>,
       <<55, "needed regular guidance to remain confident and complete tasks effectively">>,
       <<40, "found it challenging to stay focused and needed consistent encouragement">>,
       <<0, "required significant support to engage in scientific concepts and activities">> >>

sci7_science ==
    << <<90, "demonstrated a comprehensive understanding of scientific concepts and applied reasoning to explain complex phenomena">>,
       <<85, "showed a strong understanding of scientific ideas and applied them effectively in practical investigations">>,
       <<80, "understood scientific concepts and applied knowledge correctly to experiments and explanations">>,
       <<75, "understood most scientific ideas and drew logical conclusions from evidence">>,
       <<70, "grasped key principles and applied them with support in experiments">>,
       <<65, "showed developing understanding and applied knowledge when guided">>,
       <<60, "demonstrated basic understanding and applied concepts with assistance">>,
       <<55, "had limited understanding of key ideas and needed guidance to apply them">>,
       <<40, "struggled to explain simple scientific ideas and required support">>,
       <<0, "needed significant support to understand and apply scientific concepts">> >>

sci7_target ==
    << <<90, "extend learning by designing complex investigations and explaining outcomes using scientific reasoning">>,
       <<85, "develop further by applying knowledge to unfamiliar contexts and drawing evidence-based conclusions">>,
       <<80, "consolidate understanding and connect ideas across different topics in experiments">>,
       <<75, "practice analysing results and providing clear scientific explanations">>,
       <<70, "work on applying concepts accurately in practical tasks and improving reasoning">>,
       <<65, "focus on using scientific vocabulary correctly and explaining ideas clearly">>,
       <<60, "practise applying knowledge with support in experiments">>,
       <<55, "work on recalling key facts and applying simple concepts">>,
       <<40, "focus on completing tasks with guidance and understanding basic ideas">>,
       <<0, "begin with highly guided tasks to develop foundational knowledge and skills">> >>

sci7_closer ==
    << "Overall, progress in science was clear, with increasing confidence in applying concepts and reasoning",
       "With ongoing support, further development of skills and understanding is expected next term",
       "Students showed growing competence in investigating and explaining scientific ideas" >>

(* Import aliases of the first revision (English/Science, years 7 and 8) *)
opening_7_sci == sci7_opening

attitude_7_sci == sci7_attitude

science_7_sci == sci7_science

target_7_sci == sci7_target

closer_7_sci == sci7_closer

(* ---------------- Security and helper functions -------------------------- *)

AllowedPunct == {" ", ".", "'", "-"}

(* ''.join(c for c in text if c.isalnum() or c in " .'-") *)
RECURSIVE keep_range(_, _, _)
keep_range(text, lo, hi) ==
    IF lo > hi THEN ""
    ELSE IF lo = hi
         THEN (IF isalnum(Ch(text, lo)) \/ Ch(text, lo) \in AllowedPunct THEN Ch(text, lo) ELSE "")
    ELSE LET mid == (lo + hi) \div 2
         IN keep_range(text, lo, mid) \o keep_range(text, mid + 1, hi)

keep_allowed(text) == keep_range(text, 1, Len(text))

sanitize_input(text, max_length) ==
    IF text = "" THEN ""
    ELSE LET sanitized == keep_allowed(text)
             cut == SubSeq(sanitized, 1, IF Len(sanitized) < max_length THEN Len(sanitized)
                                         ELSE max_length)
         IN str_title(str_strip(cut))

(* get_pronouns without line 175, for comparison *)
get_pronouns_as_typed(gender) ==
    IF gender = "male" THEN <<"he", "his">>
    ELSE IF gender = "female" THEN <<"she", "her">>
    ELSE <<"they", "their">>

get_pronouns(gender) ==
    LET g == str_lower(gender)
    IN IF g = "male" THEN <<"he", "his">>
       ELSE IF g = "female" THEN <<"she", "her">>
       ELSE <<"they", "their">>

lowercase_first(text) ==
    IF text = "" THEN "" ELSE lower_ch(Head(text)) \o Tail(text)

truncate_comment(comment, target) ==
    IF Len(comment) <= target THEN comment
    ELSE LET truncated == str_rstrip(SubSeq(comment, 1, target), {" ", ",", ";", "."})
         IN IF contains(truncated, ".") THEN SubSeq(truncated, 1, rfind1(truncated, "."))
            ELSE truncated

(* ---------------- re.sub(r'\bword\b', repl, text[, re.IGNORECASE]) ------- *)

(* \w *)
IsWordCh(c) == isalnum(c) \/ c = "_"

(* \b before position i (1..Len(text)+1): exactly one of the characters on *)
(* its two sides is a word character; outside the text counts as non-word  *)
word_boundary_none(text, i) == TRUE

word_boundary(text, i) ==
    LET before == i > 1 /\ IsWordCh(Ch(text, i - 1))
        after == i <= Len(text) /\ IsWordCh(Ch(text, i))
    IN before # after

match_at_open_end(word, text, i, ignorecase) ==
    /\ i + Len(word) - 1 <= Len(text)
    /\ \A k \in 1..Len(word) :
          IF ignorecase THEN lower_ch(Ch(text, i + k - 1)) = lower_ch(Ch(word, k))
          ELSE Ch(text, i + k - 1) = Ch(word, k)
    /\ word_boundary(text, i)

match_at(word, text, i, ignorecase) ==
    /\ i + Len(word) - 1 <= Len(text)
    /\ \A k \in 1..Len(word) :
          IF ignorecase THEN lower_ch(Ch(text, i + k - 1)) = lower_ch(Ch(word, k))
          ELSE Ch(text, i + k - 1) = Ch(word, k)
    /\ word_boundary(text, i)
    /\ word_boundary(text, i + Len(word))

(* leftmost non-overlapping matches, each replaced by repl *)
RECURSIVE sub_from(_, _, _, _, _)
sub_from(word, repl, text, from, ignorecase) ==
    LET M == {i \in from..Len(text) : match_at(word, text, i, ignorecase)}
    IN IF M = {} THEN SubSeq(text, from, Len(text))
       ELSE SubSeq(text, from, Min(M) - 1) \o repl
            \o sub_from(word, repl, text, Min(M) + Len(word), ignorecase)

re_sub(word, repl, text, ignorecase) == sub_from(word, repl, text, 1, ignorecase)

(* the re.sub calls of fix_pronouns_in_text, in order: pattern word, *)
(* replacement, re.IGNORECASE                                        *)
rules_v1_him_possessive(pronoun, possessive) ==
    << <<"he", pronoun, TRUE>>,
       <<"He", str_capitalize(pronoun), FALSE>>,
       <<"his", possessive, TRUE>>,
       <<"His", str_capitalize(possessive), FALSE>>,
       <<"him", possessive, TRUE>>,
       <<"Him", str_capitalize(possessive), FALSE>>,
       <<"himself", pronoun \o "self", TRUE>>,
       <<"herself", pronoun \o "self", TRUE>> >>

rules_v1(pronoun, possessive) ==
    << <<"he", pronoun, TRUE>>,
       <<"He", str_capitalize(pronoun), FALSE>>,
       <<"his", possessive, TRUE>>,
       <<"His", str_capitalize(possessive), FALSE>>,
       <<"him", pronoun, TRUE>>,
       <<"Him", str_capitalize(pronoun), FALSE>>,
       <<"himself", pronoun \o "self", TRUE>>,
       <<"herself", pronoun \o "self", TRUE>> >>

(* the rules of revision 7 with the she rules writing he, for comparison *)
rules_v7_she_to_he(pronoun, possessive) ==
    rules_v1(pronoun, possessive) \o
    << <<"her", possessive, TRUE>>,
       <<"Her", str_capitalize(possessive), FALSE>>,
       <<"she", "he", TRUE>>,
       <<"She", "He", FALSE>> >>

rules_v7(pronoun, possessive) ==
    rules_v1(pronoun, possessive) \o
    << <<"her", possessive, TRUE>>,
       <<"Her", str_capitalize(possessive), FALSE>>,
       <<"she", pronoun, TRUE>>,
       <<"She", str_capitalize(pronoun), FALSE>> >>

RECURSIVE apply_rules(_, _)
apply_rules(rules, text) ==
    IF rules = << >> THEN text
    ELSE apply_rules(Tail(rules), re_sub(Head(rules)[1], Head(rules)[2], text, Head(rules)[3]))

(* fix_pronouns_in_text of revisions 1 to 6 *)
fix_pronouns_in_text_v1(text, pronoun, possessive) ==
    IF text = "" THEN text ELSE apply_rules(rules_v1(pronoun, possessive), text)

(* fix_pronouns_in_text of revision 7, with the she/her rules *)
fix_pronouns_in_text_v7(text, pronoun, possessive) ==
    IF text = "" THEN text ELSE apply_rules(rules_v7(pronoun, possessive), text)

(* ---------------- generate_comment, revision 1 --------------------------- *)
(* The Science / year 7 branch (lines 304-328) and the common tail.  opening *)
(* and closer_sentence are the two random.choice results.  The result holds  *)
(* the locals of the call: full is comment before truncate_comment.          *)

with_period(s) == IF endswith(s, ".") THEN s ELSE s \o "."

generate_comment_v1(name_raw, att, achieve, target, pronouns, attitude_target, opening, closer_sentence) ==
    LET p == pronouns[1]
        p_poss == pronouns[2]
        name == sanitize_input(name_raw, sanitize_max_length)
        attitude_text == fix_pronouns_in_text_v1(Lookup(attitude_7_sci, att), p, p_poss)
        attitude_sentence == with_period(opening \o " " \o name \o " " \o attitude_text)
        science_fixed == fix_pronouns_in_text_v1(Lookup(science_7_sci, achieve), p, p_poss)
        science_text == IF islower(Head(science_fixed)) THEN p \o " " \o science_fixed
                        ELSE science_fixed
        reading_sentence == with_period(science_text)
        target_text == fix_pronouns_in_text_v1(Lookup(target_7_sci, target), p, p_poss)
        reading_target_sentence ==
            with_period("For the next term, " \o p \o " should " \o lowercase_first(target_text))
        writing_target_sentence == ""
        writing_sentence == ""
        attitude_target_sentence ==
            IF attitude_target # ""
            THEN with_period(lowercase_first(sanitize_input(attitude_target, sanitize_max_length)))
            ELSE ""
        comment_parts == << attitude_sentence, reading_sentence, writing_sentence,
                            reading_target_sentence, writing_target_sentence,
                            closer_sentence, attitude_target_sentence >>
        full == with_period(str_strip(join_nonempty(comment_parts)))
        truncated == truncate_comment(full, TARGET_CHARS)
        comment == IF endswith(truncated, ".") THEN truncated
                   ELSE str_rstrip(truncated, {" ", ",", ";"}) \o "."
    IN [ bands |-> <<att, achieve, target>>,
         frags |-> <<attitude_text, science_fixed, target_text>>,
         full |-> full,
         comment |-> comment ]

(* attitude_7_sci[att], science_7_sci[achieve], target_7_sci[target] *)
KeyError_v1(att, achieve, target) ==
    \/ att \notin KeySet(attitude_7_sci)
    \/ achieve \notin KeySet(science_7_sci)
    \/ target \notin KeySet(target_7_sci)

(* ---------------- generate_comment, revision 4 --------------------------- *)
(* Banks are looked up in globals() under constructed names.  The statement  *)
(* files are imported with "from ... import *", which binds the names the    *)
(* files define; bound here are those of the statement files modelled above, *)
(* a later import replacing an earlier one.                                  *)

globals_v4 ==
    [ opening_phrases |-> sci7_opening,
      attitude_bank |-> sci7_attitude,
      reading_bank |-> eng5_reading,
      writing_bank |-> eng5_writing,
      reading_target_bank |-> eng5_reading_target,
      writing_target_bank |-> eng5_writing_target,
      science_bank |-> sci7_science,
      target_bank |-> sci7_target,
      closer_bank |-> sci7_closer ]

generate_comment_v4(subject, year, name_raw, att, achieve, target, pronouns, attitude_target, opening_pick, closer_pick) ==
    LET p == pronouns[1]
        p_poss == pronouns[2]
        name == sanitize_input(name_raw, sanitize_max_length)
        subject_lower == str_lower(subject)
        bank_prefix == subject_lower \o "_" \o ToString(year)
        k_opening == "opening_" \o bank_prefix
        k_attitude == "attitude_" \o bank_prefix
        k_achievement == subject_lower \o "_bank_" \o bank_prefix
        k_target == "target_" \o bank_prefix
        k_target_write == "target_write_" \o bank_prefix
        k_closer == "closer_" \o bank_prefix
        G == globals_v4
        found == /\ {k_opening, k_attitude, k_achievement, k_target, k_closer} \subseteq DOMAIN G
                 /\ att \in KeySet(G[k_attitude])
                 /\ achieve \in KeySet(G[k_achievement])
                 /\ target \in KeySet(G[k_target])
    IN IF ~found
       THEN [ bands |-> << >>, frags |-> << >>, full |-> "", comment |-> "" ]
       ELSE LET opening == G[k_opening][opening_pick]
                attitude_text == fix_pronouns_in_text_v1(Lookup(G[k_attitude], att), p, p_poss)
                achievement_text ==
                    fix_pronouns_in_text_v1(Lookup(G[k_achievement], achieve), p, p_poss)
                target_text == fix_pronouns_in_text_v1(Lookup(G[k_target], target), p, p_poss)
                target_write_text ==
                    IF k_target_write \in DOMAIN G THEN GetOrEmpty(G[k_target_write], target)
                    ELSE ""
                closer_sentence == G[k_closer][closer_pick]
                attitude_sentence == opening \o " " \o name \o " " \o attitude_text \o "."
                reading_sentence ==
                    IF subject_lower # "science" THEN p \o " " \o achievement_text \o "."
                    ELSE achievement_text \o "."
                reading_target_sentence ==
                    "For the next term, " \o p \o " should " \o lowercase_first(target_text) \o "."
                writing_target_sentence ==
                    IF target_write_text # ""
                    THEN "Additionally, " \o p \o " should "
                         \o lowercase_first(target_write_text) \o "."
                    ELSE ""
                attitude_target_sentence ==
                    IF attitude_target # ""
                    THEN " " \o lowercase_first(str_strip(attitude_target)) \o "."
                    ELSE ""
                comment_parts == << attitude_sentence \o attitude_target_sentence,
                                    reading_sentence, reading_target_sentence,
                                    writing_target_sentence, closer_sentence >>
                full == str_strip(join_nonempty(comment_parts))
                truncated == truncate_comment(full, TARGET_CHARS)
                comment == with_period(truncated)
            IN [ bands |-> <<att, achieve, target>>,
                 frags |-> <<attitude_text, achievement_text, target_text>>,
                 full |-> full,
                 comment |-> comment ]

(* ---------------- generate_comment, revision 7 --------------------------- *)

(* min(keys, key=lambda x: abs(x - score)): the first key, in the order of   *)
(* list(bank.keys()), whose distance to score is least                       *)
abs(x) == IF x < 0 THEN -x ELSE x

find_closest_score(score, bank) ==
    LET ks == keys(bank)
        least == {i \in 1..Len(ks) : \A j \in 1..Len(ks) : abs(ks[i] - score) <= abs(ks[j] - score)}
    IN ks[Min(least)]

(* The year 5 English branch (lines 2494-2502), the year 7 Science branch    *)
(* (lines 2547-2554) and the common head and tail.  opening_pick and         *)
(* closer_pick are the positions random.choice picks in the two pools.       *)
generate_comment_v7(subject, year, name_raw, att_in, achieve_in, target_in, pronouns, attitude_target, opening_pick, closer_pick) ==
    LET p == pronouns[1]
        p_poss == pronouns[2]
        name == sanitize_input(name_raw, sanitize_max_length)
        att == find_closest_score(att_in, eng5_attitude)
        achieve == find_closest_score(achieve_in, eng5_reading)
        target_score == find_closest_score(target_in, eng5_reading_target)
        english == year = 5 /\ subject = "English"
        opening_bank == IF english THEN eng5_opening ELSE sci7_opening
        closer_bank == IF english THEN eng5_closer ELSE sci7_closer
        opening == opening_bank[opening_pick]
        attitude_text ==
            fix_pronouns_in_text_v7(Lookup(IF english THEN eng5_attitude ELSE sci7_attitude, att),
                                    p, p_poss)
        reading_text ==
            fix_pronouns_in_text_v7(Lookup(IF english THEN eng5_reading ELSE sci7_science,
                                           achieve), p, p_poss)
        writing_text ==
            IF english THEN fix_pronouns_in_text_v7(Lookup(eng5_writing, achieve), p, p_poss)
            ELSE ""
        reading_target_text ==
            fix_pronouns_in_text_v7(Lookup(IF english THEN eng5_reading_target ELSE sci7_target,
                                           target_score), p, p_poss)
        writing_target_text ==
            IF english
            THEN fix_pronouns_in_text_v7(Lookup(eng5_writing_target, target_score), p, p_poss)
            ELSE ""
        closer_sentence == closer_bank[closer_pick]
        attitude_target_sentence ==
            IF attitude_target # "" THEN " " \o str_strip(attitude_target) ELSE ""
        comment_parts ==
            << opening \o " " \o name \o " " \o attitude_text \o attitude_target_sentence,
               reading_text,
               writing_text,
               IF reading_target_text # ""
               THEN "For the next term, " \o p \o " should " \o lowercase_first(reading_target_text)
               ELSE "",
               IF writing_target_text # ""
               THEN "Additionally, " \o p \o " should " \o lowercase_first(writing_target_text)
               ELSE "",
               closer_sentence >>
        full == join_nonempty(comment_parts)
        truncated == truncate_comment(full, TARGET_CHARS)
        comment == IF endswith(truncated, ".") THEN truncated
                   ELSE str_rstrip(truncated, {" ", ",", ";"}) \o "."
    IN [ bands |-> <<att, achieve, target_score>>,
         frags |-> <<attitude_text, reading_text, reading_target_text>>,
         full |-> full,
         comment |-> comment ]

(* ======================= The calls as a state machine ==================== *)

VARIABLES rev, req, outcome, full, comment, bands, frags

VARIABLES fp_rev, fp_text, fp_pair, fp_out

VARIABLES fc_score, fc_bank, fc_done, fc_out

VARIABLES gp_label, gp_done, gp_out

VARIABLES si_text, si_done, si_out

VARIABLES b_rev, b_rows, b_idx, b_status, all_comments, row_errors, results, bulk_results, b_before, announced

VARIABLES s_rev, now, last_upload_time, mode, uploaded_file, s_check, s_processed, s_button, s_bulk_stored, s_displayed

genVars == <<rev, req, outcome, full, comment, bands, frags>>

fixVars == <<fp_rev, fp_text, fp_pair, fp_out>>

bandVars == <<fc_score, fc_bank, fc_done, fc_out>>

pronVars == <<gp_label, gp_done, gp_out>>

sanVars == <<si_text, si_done, si_out>>

batchVars == <<b_rev, b_rows, b_idx, b_status, all_comments, row_errors, results, bulk_results, b_before, announced>>

VARIABLES tc_comment, tc_target, tc_done, tc_out

truncVars == <<tc_comment, tc_target, tc_done, tc_out>>

sessVars == <<s_rev, now, last_upload_time, mode, uploaded_file, s_check, s_processed, s_button, s_bulk_stored, s_displayed>>

vars == <<genVars, fixVars, bandVars, pronVars, sanVars, batchVars, sessVars, truncVars>>

(* ---------------- Requests ----------------------------------------------- *)
(* A behaviour is one call: generate_comment keeps nothing between calls.    *)

LongName ==
    "maximilian alexander bartholomew fitzgerald-montgomery wolfeschlegelsteinhausen bergerdorff the third esq"

GenNames == {"Al", "j.r. smith", "!!!", LongName}

GenGenders == {"Male", "female", "Nonbinary"}

AttInputs == {0, 72, 90}

AchieveInputs == {90}

TargetInputs == {85}

Addenda == {"", "see mr.jones about homework"}

NoRequest ==
    [ subject |-> "", year |-> 0, name |-> "", gender |-> "", att |-> 0, achieve |-> 0,
      target |-> 0, attitude_target |-> "", opening |-> 0, closer |-> 0 ]

Request(subject, year, name, gender, att, achieve, target, attitude_target, oi, ci) ==
    [ subject |-> subject, year |-> year, name |-> name, gender |-> gender, att |-> att,
      achieve |-> achieve, target |-> target, attitude_target |-> attitude_target,
      opening |-> oi, closer |-> ci ]

(* the (subject, year) pairs whose statement files are modelled *)
Registered_v7 == {<<"English", 5>>, <<"Science", 7>>}

(* a pair no statement file exists for: History is no subject of the tool *)
Unregistered == {<<"History", 7>>}

Requested == Registered_v7 \cup Unregistered

OpeningPool_v7(sy) == IF sy = <<"English", 5>> THEN eng5_opening ELSE sci7_opening

CloserPool_v7(sy) == IF sy = <<"English", 5>> THEN eng5_closer ELSE sci7_closer

IdleGen ==
    /\ rev = 0
    /\ req = NoRequest
    /\ outcome = "idle"
    /\ full = ""
    /\ comment = ""
    /\ bands = << >>
    /\ frags = << >>

IdleFix == fp_rev = 0 /\ fp_text = "" /\ fp_pair = <<"he", "his">> /\ fp_out = ""

IdleBand == fc_score = 0 /\ fc_bank = "eng5_attitude" /\ fc_done = FALSE /\ fc_out = 0

IdlePron == gp_label = "" /\ gp_done = FALSE /\ gp_out = << >>

IdleSan == si_text = "" /\ si_done = FALSE /\ si_out = ""

(* no CSV loaded: st.session_state holds neither all_comments nor            *)
(* bulk_results                                                              *)
IdleBatch ==
    /\ b_rev = 0
    /\ b_rows = << >>
    /\ b_idx = 0
    /\ b_status = "idle"
    /\ all_comments = << >>
    /\ row_errors = {}
    /\ results = << >>
    /\ bulk_results = << >>
    /\ b_before = << >>
    /\ announced = 0

(* validate_upload_rate not yet called in the run *)
NoCheck == [checked |-> FALSE, elapsed |-> 0, returned |-> TRUE]

IdleSess ==
    /\ s_rev = 0
    /\ now = 0
    /\ last_upload_time = 0
    /\ mode = "Single Student"
    /\ uploaded_file = "none"
    /\ s_check = NoCheck
    /\ s_processed = << >>
    /\ s_button = FALSE
    /\ s_bulk_stored = FALSE
    /\ s_displayed = FALSE

IdleTrunc == tc_comment = "" /\ tc_target = 0 /\ tc_done = FALSE /\ tc_out = ""

IdleOthers == IdlePron /\ IdleSan /\ IdleBatch /\ IdleSess /\ IdleTrunc

Returned(r) ==
    /\ outcome' = "returned"
    /\ full' = r.full
    /\ comment' = r.comment
    /\ bands' = r.bands
    /\ frags' = r.frags

Raised(e) ==
    /\ outcome' = e
    /\ full' = ""
    /\ comment' = ""
    /\ bands' = << >>
    /\ frags' = << >>

(* a call of revision 1's generate_comment that takes the branch of lines    *)
(* 304-328: subject is not "English" (else, line 304) and year is 7          *)
GenerateV1 ==
    \E sy \in Requested, name \in GenNames, gender \in GenGenders, att \in AttInputs,
       achieve \in AchieveInputs, target \in TargetInputs, attitude_target \in Addenda,
       oi \in 1..Len(opening_7_sci), ci \in 1..Len(closer_7_sci) :
        /\ outcome = "idle"
        /\ sy[1] # "English" /\ sy[2] = 7
        /\ rev' = 1
        /\ req' = Request(sy[1], sy[2], name, gender, att, achieve, target, attitude_target, oi, ci)
        /\ IF KeyError_v1(att, achieve, target)
           THEN Raised("KeyError")
           ELSE Returned(generate_comment_v1(name, att, achieve, target, get_pronouns(gender),
                                             attitude_target, opening_7_sci[oi], closer_7_sci[ci]))
        /\ UNCHANGED <<fixVars, bandVars, pronVars, sanVars, batchVars, sessVars, truncVars>>

(* a call of revision 4's generate_comment *)
GenerateV4 ==
    \E sy \in Requested, name \in GenNames, gender \in GenGenders, att \in AttInputs,
       achieve \in AchieveInputs, target \in TargetInputs, attitude_target \in Addenda :
        /\ outcome = "idle"
        /\ rev' = 4
        /\ req' = Request(sy[1], sy[2], name, gender, att, achieve, target, attitude_target, 1, 1)
        /\ Returned(generate_comment_v4(sy[1], sy[2], name, att, achieve, target,
                                        get_pronouns(gender), attitude_target, 1, 1))
        /\ UNCHANGED <<fixVars, bandVars, pronVars, sanVars, batchVars, sessVars, truncVars>>

(* a call of revision 7's generate_comment *)
GenerateV7 ==
    \E sy \in Requested, name \in GenNames, gender \in GenGenders, att \in AttInputs,
       achieve \in AchieveInputs, target \in TargetInputs, attitude_target \in Addenda :
      \E oi \in 1..Len(OpeningPool_v7(sy)), ci \in 1..Len(CloserPool_v7(sy)) :
        /\ outcome = "idle"
        /\ rev' = 7
        /\ req' = Request(sy[1], sy[2], name, gender, att, achieve, target, attitude_target, oi, ci)
        /\ Returned(generate_comment_v7(sy[1], sy[2], name, att, achieve, target,
                                        get_pronouns(gender), attitude_target, oi, ci))
        /\ UNCHANGED <<fixVars, bandVars, pronVars, sanVars, batchVars, sessVars, truncVars>>

Init == IdleGen /\ IdleFix /\ IdleBand /\ IdleOthers

Next == GenerateV1 \/ GenerateV4 \/ GenerateV7

Spec == Init /\ [][Next]_vars

(* ---------------- fix_pronouns_in_text on its own ------------------------ *)
(* Texts of at most MaxWords words, each two joined by a separator; "_" is a *)
(* word character, so it glues two words into one token.                     *)

MaxWords == 2

FixWords ==
    { "he", "He", "his", "His", "him", "Him", "himself", "herself", "she", "her",
      "the", "there", "history" }

FixSeps == {" ", "-", "_"}

RECURSIVE TextsOf(_)
TextsOf(n) ==
    IF n <= 1 THEN FixWords
    ELSE LET shorter == TextsOf(n - 1)
         IN shorter \cup {t \o sep \o w : t \in shorter, sep \in FixSeps, w \in FixWords}

FixTexts == TextsOf(MaxWords)

(* the pairs get_pronouns returns *)
PronounPairs == {get_pronouns(g) : g \in GenGenders}

InitFix ==
    /\ IdleGen
    /\ IdleBand
    /\ IdleOthers
    /\ fp_rev = 0
    /\ fp_text \in FixTexts
    /\ fp_pair \in PronounPairs
    /\ fp_out = ""

FixPronounsV1 ==
    /\ fp_rev = 0
    /\ fp_rev' = 1
    /\ fp_out' = fix_pronouns_in_text_v1(fp_text, fp_pair[1], fp_pair[2])
    /\ UNCHANGED <<fp_text, fp_pair, genVars, bandVars, pronVars, sanVars, batchVars, sessVars, truncVars>>

FixPronounsV7 ==
    /\ fp_rev = 0
    /\ fp_rev' = 7
    /\ fp_out' = fix_pronouns_in_text_v7(fp_text, fp_pair[1], fp_pair[2])
    /\ UNCHANGED <<fp_text, fp_pair, genVars, bandVars, pronVars, sanVars, batchVars, sessVars, truncVars>>

NextFix == FixPronounsV1 \/ FixPronounsV7

SpecFix == InitFix /\ [][NextFix]_vars

(* ---------------- find_closest_score on its own -------------------------- *)
(* Bands are integers (sliders in steps of 5, int(...) of a CSV cell); the   *)
(* banks are band-indexed banks of the statement files.                      *)

MaxScore == 100

BandBanks ==
    [ eng5_attitude |-> eng5_attitude,
      eng5_reading |-> eng5_reading,
      eng5_reading_target |-> eng5_reading_target,
      sci7_attitude |-> sci7_attitude ]

InitBand ==
    /\ IdleGen
    /\ IdleFix
    /\ IdleOthers
    /\ fc_score \in 0..MaxScore
    /\ fc_bank \in DOMAIN BandBanks
    /\ fc_done = FALSE
    /\ fc_out = 0

FindClosest ==
    /\ ~fc_done
    /\ fc_done' = TRUE
    /\ fc_out' = find_closest_score(fc_score, BandBanks[fc_bank])
    /\ UNCHANGED <<fc_score, fc_bank, genVars, fixVars, pronVars, sanVars, batchVars, sessVars, truncVars>>

NextBand == FindClosest

SpecBand == InitBand /\ [][NextBand]_vars

(* ---------------- Batch runs --------------------------------------------- *)
(* The "Generate All Comments" loops over the rows of the uploaded CSV.  A   *)
(* row holds its cells as text and the two positions random.choice picks     *)
(* for it; process_csv_securely has sanitized the names.  Rows are Science,  *)
(* year 7; the band cell varies.                                             *)

MaxRows == 3

(* int(cell) of a cell that is a run of digits, ValueError otherwise; signs, *)
(* blanks and underscores do not occur in the cells modelled                 *)
is_digits(cell) == cell # "" /\ \A i \in 1..Len(cell) : Ch(cell, i) \in DigitSet

digit_value(c) == (CHOOSE i \in 1..10 : Ch(DigitStr, i) = c) - 1

RECURSIVE int_of(_)
int_of(cell) ==
    IF cell = "" THEN 0
    ELSE 10 * int_of(SubSeq(cell, 1, Len(cell) - 1)) + digit_value(Ch(cell, Len(cell)))

BatchRow(name, gender, att, oi, ci) ==
    [ name |-> sanitize_input(name, sanitize_max_length), gender |-> gender,
      subject |-> "Science", year |-> "7", att |-> att,
      achieve |-> "90", target |-> "85", opening |-> oi, closer |-> ci ]

BatchRowInputs ==
    { BatchRow("Al", "Male", "90", 1, 1),
      BatchRow("j.r. smith", "female", "90", 2, 3),
      BatchRow("Al", "Male", "72", 1, 1),
      BatchRow("Al", "Male", "abc", 1, 1) }

BatchInputs == UNION {[1..n -> BatchRowInputs] : n \in 1..MaxRows}

(* st.session_state.all_comments when the button is pressed: empty, or with  *)
(* an entry an earlier generation appended                                    *)
PriorComments ==
    { << >>,
      << [ name |-> "Zed", subject |-> "Science", year |-> 7,
           comment |-> "This term, Zed approached lessons well." ] >> }

InitBatch ==
    /\ IdleGen
    /\ IdleFix
    /\ IdleBand
    /\ IdlePron
    /\ IdleSan
    /\ IdleSess
    /\ IdleTrunc
    /\ b_rev = 0
    /\ b_rows \in BatchInputs
    /\ b_idx = 0
    /\ b_status = "loaded"
    /\ all_comments \in PriorComments
    /\ row_errors = {}
    /\ results = << >>
    /\ bulk_results = << >>
    /\ b_before = << >>
    /\ announced = 0

(* int(row['Year']), int(row['Attitude']), ... raises ValueError *)
ValueError_row(row) ==
    ~is_digits(row.year) \/ ~is_digits(row.att) \/ ~is_digits(row.achieve) \/ ~is_digits(row.target)

(* revision 1, lines 657-667: pronouns = get_pronouns(...), comment =        *)
(* generate_comment(...) for a row whose cells int() accepts                 *)
RowCommentV1(row) ==
    generate_comment_v1(row.name, int_of(row.att), int_of(row.achieve), int_of(row.target),
                        get_pronouns(str_lower(row.gender)), "",
                        opening_7_sci[row.opening], closer_7_sci[row.closer]).comment

(* a row comment whose opening goes by the number of rows already generated, *)
(* for comparison                                                            *)
RowCommentV7_by_position(row) ==
    generate_comment_v7(row.subject, int_of(row.year), row.name, int_of(row.att),
                        int_of(row.achieve), int_of(row.target), get_pronouns(row.gender), "",
                        (Len(results) % 3) + 1, row.closer).comment

(* revision 7, lines 2694-2705 *)
RowCommentV7(row) ==
    generate_comment_v7(row.subject, int_of(row.year), row.name, int_of(row.att),
                        int_of(row.achieve), int_of(row.target), get_pronouns(row.gender), "",
                        row.opening, row.closer).comment

(* revision 1, lines 643-645: the button is pressed *)
StartBatchV1 ==
    /\ b_status = "loaded"
    /\ b_rev' = 1
    /\ b_status' = "running"
    /\ b_before' = all_comments
    /\ UNCHANGED <<b_rows, b_idx, all_comments, row_errors, results, bulk_results, announced>>
    /\ UNCHANGED <<genVars, fixVars, bandVars, pronVars, sanVars, sessVars, truncVars>>

(* revision 1, lines 650-679: one turn of the loop, the try block and its    *)
(* except Exception                                                          *)
BatchRowV1 ==
    /\ b_status = "running" /\ b_rev = 1 /\ b_idx < Len(b_rows)
    /\ LET row == b_rows[b_idx + 1]
           failed == \/ ValueError_row(row)
                     \/ KeyError_v1(int_of(row.att), int_of(row.achieve), int_of(row.target))
       IN IF failed
          THEN /\ row_errors' = row_errors \cup {b_idx + 1}
               /\ UNCHANGED all_comments
          ELSE LET student_entry == [ name |-> sanitize_input(row.name, sanitize_max_length),
                                      subject |-> row.subject,
                                      year |-> int_of(row.year),
                                      comment |-> RowCommentV1(row) ]
               IN /\ all_comments' = Append(all_comments, student_entry)
                  /\ UNCHANGED row_errors
    /\ b_idx' = b_idx + 1
    /\ UNCHANGED <<b_rev, b_rows, b_status, results, bulk_results, b_before, announced>>
    /\ UNCHANGED <<genVars, fixVars, bandVars, pronVars, sanVars, sessVars, truncVars>>

(* revision 1, lines 681-685: the loop is over, st.success(f"Generated       *)
(* {len(df)} comments!")                                                     *)
FinishBatchV1 ==
    /\ b_status = "running" /\ b_rev = 1 /\ b_idx = Len(b_rows)
    /\ b_status' = "done"
    /\ announced' = Len(b_rows)
    /\ UNCHANGED <<b_rev, b_rows, b_idx, all_comments, row_errors, results, bulk_results, b_before>>
    /\ UNCHANGED <<genVars, fixVars, bandVars, pronVars, sanVars, sessVars, truncVars>>

(* revision 7, lines 2690-2692: the button is pressed, results = [] *)
StartBatchV7 ==
    /\ b_status = "loaded"
    /\ b_rev' = 7
    /\ b_status' = "running"
    /\ results' = << >>
    /\ UNCHANGED <<b_rows, b_idx, all_comments, row_errors, bulk_results, b_before, announced>>
    /\ UNCHANGED <<genVars, fixVars, bandVars, pronVars, sanVars, sessVars, truncVars>>

(* revision 7, lines 2693-2711: one turn of the loop.  Nothing catches the   *)
(* ValueError of int(...): it ends the script run, and the local results     *)
(* with it.                                                                  *)
BatchRowV7 ==
    /\ b_status = "running" /\ b_rev = 7 /\ b_idx < Len(b_rows)
    /\ LET row == b_rows[b_idx + 1]
       IN IF ValueError_row(row)
          THEN /\ b_status' = "aborted"
               /\ results' = << >>
               /\ UNCHANGED b_idx
          ELSE /\ results' = Append(results, [ name |-> row.name,
                                               year |-> row.year,
                                               subject |-> row.subject,
                                               comment |-> RowCommentV7(row),
                                               length |-> Len(RowCommentV7(row)) ])
               /\ b_idx' = b_idx + 1
               /\ UNCHANGED b_status
    /\ UNCHANGED <<b_rev, b_rows, all_comments, row_errors, bulk_results, b_before, announced>>
    /\ UNCHANGED <<genVars, fixVars, bandVars, pronVars, sanVars, sessVars, truncVars>>

(* revision 7, lines 2713-2714: st.session_state.bulk_results = results_df *)
FinishBatchV7 ==
    /\ b_status = "running" /\ b_rev = 7 /\ b_idx = Len(b_rows)
    /\ b_status' = "done"
    /\ bulk_results' = results
    /\ UNCHANGED <<b_rev, b_rows, b_idx, all_comments, row_errors, results, b_before, announced>>
    /\ UNCHANGED <<genVars, fixVars, bandVars, pronVars, sanVars, sessVars, truncVars>>

NextBatch ==
    \/ StartBatchV1 \/ BatchRowV1 \/ FinishBatchV1
    \/ StartBatchV7 \/ BatchRowV7 \/ FinishBatchV7

SpecBatch == InitBatch /\ [][NextBatch]_vars

(* ---------------- get_pronouns on free-text labels ----------------------- *)
(* A CSV Gender cell is free text: every spelling of the two labels in       *)
(* either case, and labels that are neither.                                 *)

RECURSIVE CaseVariants(_)
CaseVariants(word) ==
    IF word = "" THEN {""}
    ELSE {c \o t : c \in {lower_ch(Head(word)), upper_ch(Head(word))},
                  t \in CaseVariants(Tail(word))}

OtherLabels == {"", "Nonbinary", "Other", "nan", "M", "F", "males", "mal", "male ", " female", "fe male"}

PronLabels == CaseVariants("male") \cup CaseVariants("female") \cup OtherLabels

InitPron ==
    /\ IdleGen
    /\ IdleFix
    /\ IdleBand
    /\ IdleSan
    /\ IdleBatch
    /\ IdleSess
    /\ IdleTrunc
    /\ gp_label \in PronLabels
    /\ gp_done = FALSE
    /\ gp_out = << >>

GetPronouns ==
    /\ ~gp_done
    /\ gp_done' = TRUE
    /\ gp_out' = get_pronouns(gp_label)
    /\ UNCHANGED gp_label
    /\ UNCHANGED <<genVars, fixVars, bandVars, sanVars, batchVars, sessVars, truncVars>>

NextPron == GetPronouns

SpecPron == InitPron /\ [][NextPron]_vars

(* ---------------- sanitize_input on free text ----------------------------- *)
(* The texts: every string of at most MaxText characters of SanAlphabet, a   *)
(* missing text being the empty one ("if not text"), and texts longer than   *)
(* max_length.                                                               *)

MaxText == 3

SanAlphabet == {"a", "B", "3", " ", "'", "!", SharpS}

RECURSIVE StringsUpTo(_)
StringsUpTo(n) ==
    IF n = 0 THEN {""}
    ELSE LET shorter == StringsUpTo(n - 1)
         IN shorter \cup {c \o t : c \in SanAlphabet, t \in shorter}

RECURSIVE Repeat(_, _)
Repeat(s, n) ==
    IF n = 0 THEN ""
    ELSE IF n = 1 THEN s
    ELSE Repeat(s, n \div 2) \o Repeat(s, n - n \div 2)

LongTexts ==
    { LongName,
      Repeat("a", sanitize_max_length),
      Repeat("ab ", 40),
      Repeat("!", sanitize_max_length) \o "al",
      Repeat("a", sanitize_max_length - 1) \o " b",
      SharpS \o Repeat("a", sanitize_max_length - 1) }

SanTexts == StringsUpTo(MaxText) \cup LongTexts

InitSan ==
    /\ IdleGen
    /\ IdleFix
    /\ IdleBand
    /\ IdlePron
    /\ IdleBatch
    /\ IdleSess
    /\ IdleTrunc
    /\ si_text \in SanTexts
    /\ si_done = FALSE
    /\ si_out = ""

SanitizeInput ==
    /\ ~si_done
    /\ si_done' = TRUE
    /\ si_out' = sanitize_input(si_text, sanitize_max_length)
    /\ UNCHANGED si_text
    /\ UNCHANGED <<genVars, fixVars, bandVars, pronVars, batchVars, sessVars, truncVars>>

NextSan == SanitizeInput

SpecSan == InitSan /\ [][NextSan]_vars

(* ---------------- A session: script runs over time ----------------------- *)
(* Every interaction with a widget runs the script again from the top with   *)
(* the widgets' values.  The clock counts seconds and advances between runs  *)
(* by TickSeconds; several runs may fall into the same second.  An uploaded  *)
(* file is "good" when int() accepts all its cells and "bad" otherwise.      *)
(* s_processed holds the times of the last two calls of                      *)
(* process_csv_securely.                                                     *)

RATE_LIMIT_SECONDS == 10

TickSeconds == 5

MaxTime == 30

InitSess ==
    /\ IdleGen
    /\ IdleFix
    /\ IdleBand
    /\ IdlePron
    /\ IdleSan
    /\ IdleBatch
    /\ IdleSess
    /\ IdleTrunc

(* validate_upload_rate(): False when less than RATE_LIMIT_SECONDS have      *)
(* passed since last_upload_time                                             *)
validate_upload_rate(t, last) == ~(t - last < RATE_LIMIT_SECONDS)

RateCheck(t, last) ==
    [checked |-> TRUE, elapsed |-> t - last, returned |-> validate_upload_rate(t, last)]

LastTwo(times) == IF Len(times) <= 2 THEN times ELSE SubSeq(times, Len(times) - 1, Len(times))

Tick ==
    /\ s_rev # 0
    /\ now + TickSeconds <= MaxTime
    /\ now' = now + TickSeconds
    /\ UNCHANGED <<s_rev, last_upload_time, mode, uploaded_file, s_check, s_processed, s_button, s_bulk_stored, s_displayed>>
    /\ UNCHANGED <<genVars, fixVars, bandVars, pronVars, sanVars, batchVars, truncVars>>

(* first run of a session: 'app_initialized' not in st.session_state *)
StartSession ==
    /\ s_rev = 0
    /\ s_rev' \in {1, 7}
    /\ last_upload_time' = now
    /\ mode' = IF s_rev' = 1 THEN "Batch Upload" ELSE "Single Student"
    /\ UNCHANGED <<now, uploaded_file, s_check, s_processed, s_button, s_bulk_stored, s_displayed>>
    /\ UNCHANGED <<genVars, fixVars, bandVars, pronVars, sanVars, batchVars, truncVars>>

(* revision 1, a run in "Batch Upload" mode, lines 597-685 *)
RunBatchUploadV1 ==
    \E event \in {"upload_good", "upload_bad", "click_generate", "other"} :
        /\ s_rev = 1
        /\ event = "click_generate" => s_button
        /\ uploaded_file' = IF event = "upload_good" THEN "good"
                            ELSE IF event = "upload_bad" THEN "bad"
                            ELSE uploaded_file
        /\ IF uploaded_file' = "none"
           THEN /\ s_check' = NoCheck
                /\ s_button' = FALSE
                /\ UNCHANGED <<s_processed, last_upload_time>>
           ELSE /\ s_check' = RateCheck(now, last_upload_time)
                /\ IF ~validate_upload_rate(now, last_upload_time)
                   THEN /\ s_button' = FALSE
                        /\ UNCHANGED <<s_processed, last_upload_time>>
                   ELSE /\ s_processed' = LastTwo(Append(s_processed, now))
                        /\ s_button' = TRUE
                        /\ last_upload_time' = IF event = "click_generate" THEN now
                                               ELSE last_upload_time
        /\ UNCHANGED <<s_rev, now, mode, s_bulk_stored, s_displayed>>
        /\ UNCHANGED <<genVars, fixVars, bandVars, pronVars, sanVars, batchVars, truncVars>>

(* revision 7, one run of the script, lines 2615-2812 *)
RunV7 ==
    \E event \in {"mode_single", "mode_bulk", "upload_good", "upload_bad",
                  "click_generate", "click_clear", "other"} :
        /\ s_rev = 7
        /\ event \in {"upload_good", "upload_bad"} => mode = "Bulk Upload (CSV)"
        /\ event = "click_generate" => s_button
        /\ event = "click_clear" => s_displayed
        /\ mode' = IF event = "mode_single" THEN "Single Student"
                   ELSE IF event = "mode_bulk" THEN "Bulk Upload (CSV)"
                   ELSE mode
        /\ uploaded_file' = IF mode' = "Single Student" THEN "none"
                            ELSE IF event = "upload_good" THEN "good"
                            ELSE IF event = "upload_bad" THEN "bad"
                            ELSE uploaded_file
        /\ LET checked == mode' # "Single Student" /\ uploaded_file' # "none"
               allowed == checked /\ validate_upload_rate(now, last_upload_time)
               clicked == allowed /\ event = "click_generate"
               raised == clicked /\ uploaded_file' = "bad"
               stored == IF clicked /\ ~raised THEN TRUE ELSE s_bulk_stored
               shown == ~raised /\ mode' = "Bulk Upload" /\ stored
           IN /\ s_check' = IF checked THEN RateCheck(now, last_upload_time) ELSE NoCheck
              /\ s_processed' = IF allowed THEN LastTwo(Append(s_processed, now))
                                ELSE s_processed
              /\ last_upload_time' = IF allowed THEN now ELSE last_upload_time
              /\ s_button' = (allowed /\ ~raised)
              /\ s_bulk_stored' = IF shown /\ event = "click_clear" THEN FALSE ELSE stored
              /\ s_displayed' = (shown /\ event # "click_clear")
        /\ UNCHANGED <<s_rev, now>>
        /\ UNCHANGED <<genVars, fixVars, bandVars, pronVars, sanVars, batchVars, truncVars>>

NextSess == Tick \/ StartSession \/ RunBatchUploadV1 \/ RunV7

SpecSess == InitSess /\ [][NextSess]_vars

(* ---------------- truncate_comment on its own ----------------------------- *)
(* Comments of at most MaxComment characters of TruncAlphabet, cut at        *)
(* targets small enough for the cut to fall on every kind of character.      *)

MaxComment == 6

TruncAlphabet == {"a", ".", " "}

RECURSIVE CommentsUpTo(_)
CommentsUpTo(n) ==
    IF n = 0 THEN {""}
    ELSE LET shorter == CommentsUpTo(n - 1)
         IN shorter \cup {t \o c : t \in shorter, c \in TruncAlphabet}

TruncTargets == 3..4

InitTrunc ==
    /\ IdleGen
    /\ IdleFix
    /\ IdleBand
    /\ IdlePron
    /\ IdleSan
    /\ IdleBatch
    /\ IdleSess
    /\ tc_comment \in CommentsUpTo(MaxComment)
    /\ tc_target \in TruncTargets
    /\ tc_done = FALSE
    /\ tc_out = ""

TruncateComment ==
    /\ ~tc_done
    /\ tc_done' = TRUE
    /\ tc_out' = truncate_comment(tc_comment, tc_target)
    /\ UNCHANGED <<tc_comment, tc_target>>
    /\ UNCHANGED <<genVars, fixVars, bandVars, pronVars, sanVars, batchVars, sessVars>>

NextTrunc == TruncateComment

SpecTrunc == InitTrunc /\ [][NextTrunc]_vars

(* ======================= Properties ====================================== *)

(* ---------------- generate_comment: the returned string ------------------ *)

(* C1: every string generate_comment returns has at most TARGET_CHARS (499)  *)
(* characters, the force-appended period included.                           *)
C1_LengthAtMostTarget == outcome = "returned" => Len(comment) <= TARGET_CHARS

(* C2: every string generate_comment returns ends with a full stop.          *)
C2_EndsWithFullStop == outcome = "returned" => endswith(comment, ".")

(* C3: when the assembled comment is longer than TARGET_CHARS, the returned  *)
(* text is a prefix of it that ends at one of its full stops: complete       *)
(* sentences only, never a cut inside a word or a sentence.                  *)
C3_ShortenedAtSentenceEnd ==
    (outcome = "returned" /\ Len(full) > TARGET_CHARS) =>
        /\ Len(comment) <= Len(full)
        /\ comment = SubSeq(full, 1, Len(comment))
        /\ endswith(comment, ".")

(* C4: in every returned string each full stop other than the last          *)
(* character is immediately followed by a space.                             *)
C4_FullStopThenSpace ==
    outcome = "returned" =>
        \A i \in 1..(Len(comment) - 1) : Ch(comment, i) = "." => Ch(comment, i + 1) = " "

(* ---------------- fix_pronouns_in_text ----------------------------------- *)
(* A token is a maximal run of word characters or of other characters.       *)

RECURSIVE tokens_from(_, _)
tokens_from(text, i) ==
    IF i > Len(text) THEN << >>
    ELSE LET w == IsWordCh(Ch(text, i))
             e == CHOOSE j \in i..Len(text) :
                      /\ \A k \in i..j : IsWordCh(Ch(text, k)) = w
                      /\ j = Len(text) \/ IsWordCh(Ch(text, j + 1)) # w
         IN <<SubSeq(text, i, e)>> \o tokens_from(text, e + 1)

Tokens(text) == tokens_from(text, 1)

(* the words the rules of a revision match, ignoring case *)
RuleWords(r) ==
    IF r = 7 THEN {"he", "his", "him", "himself", "herself", "her", "she"}
    ELSE {"he", "his", "him", "himself", "herself"}

(* C5: only whole-word tokens are rewritten: the result has the tokens of    *)
(* the text in the same order, and every token that is not a pronoun of the  *)
(* rules, a longer word that contains one included, is unchanged.            *)
C5_WholeWordOnly ==
    fp_rev # 0 =>
        LET a == Tokens(fp_text)
            b == Tokens(fp_out)
        IN /\ Len(a) = Len(b)
           /\ \A i \in 1..Len(a) : str_lower(a[i]) \notin RuleWords(fp_rev) => b[i] = a[i]

C5_Witness ==
    /\ fp_rev = 7
    /\ fp_text = "there-he"
    /\ fp_pair = <<"she", "her">>
    /\ fp_out = "there-she"

(* C6: capitalisation is kept token by token: he, his, him become the lower  *)
(* case replacement and He, His, Him the capitalised one (He -> She and      *)
(* His -> Her for the pair she/her).                                         *)
C6_CapitalisationKept ==
    fp_rev # 0 =>
        LET a == Tokens(fp_text)
            b == Tokens(fp_out)
            p == fp_pair[1]
            poss == fp_pair[2]
        IN /\ Len(a) = Len(b)
           /\ \A i \in 1..Len(a) :
                 /\ a[i] \in {"he", "him"} => b[i] = p
                 /\ a[i] = "his" => b[i] = poss
                 /\ a[i] \in {"He", "Him"} => b[i] = str_capitalize(p)
                 /\ a[i] = "His" => b[i] = str_capitalize(poss)

(* C7: each whole-word he becomes p, each his poss and each him p, no token  *)
(* that is not a pronoun of the rules changes, and applying the rules in     *)
(* the opposite order gives these tokens the same replacements.              *)
Reverse(seq) == [i \in 1..Len(seq) |-> seq[Len(seq) + 1 - i]]

TokenwiseHeHisHim(text, out, p, poss, words) ==
    LET a == Tokens(text)
        b == Tokens(out)
    IN /\ Len(a) = Len(b)
       /\ \A i \in 1..Len(a) :
             /\ a[i] = "he" => b[i] = p
             /\ a[i] = "his" => b[i] = poss
             /\ a[i] = "him" => b[i] = p
             /\ str_lower(a[i]) \notin words => b[i] = a[i]

C8_SelfAsOneToken ==
    fp_rev # 0 =>
        LET a == Tokens(fp_text)
            b == Tokens(fp_out)
        IN /\ Len(a) = Len(b)
           /\ \A i \in 1..Len(a) :
                 a[i] \in {"himself", "herself"} => b[i] = fp_pair[1] \o "self"

C8_Witness ==
    /\ fp_rev = 7
    /\ fp_text = "herself himself"
    /\ fp_pair = <<"she", "her">>
    /\ fp_out = "sheself sheself"

(* ---------------- Band resolution ---------------------------------------- *)

OwnAttitudeBank(r) == IF r.subject = "English" THEN eng5_attitude ELSE sci7_attitude

(* C10: the attitude band is resolved against the keys of the attitude       *)
(* mapping of the requested subject and year: a band that is one of its keys *)
(* selects that entry, any other band its nearest key.                       *)
C10_ResolvedInOwnMapping ==
    (rev = 7 /\ outcome = "returned") =>
        LET K == KeySet(OwnAttitudeBank(req))
        IN /\ bands[1] \in K
           /\ req.att \in K => bands[1] = req.att
           /\ \A k \in K : abs(bands[1] - req.att) <= abs(k - req.att)

(* ---------------- Errors of a request ------------------------------------ *)

(* C11: a call for a (subject, year) pair without a statement set returns no *)
(* comment: it ends in an error or with the empty string, never with a       *)
(* comment composed from the banks of another subject or year.               *)
C11_UnregisteredYieldsNoComment ==
    (outcome # "idle" /\ <<req.subject, req.year>> \in Unregistered) =>
        (outcome # "returned" \/ comment = "")

(* C12: a request whose name is empty after sanitization is rejected: no     *)
(* comment is returned for it.                                               *)
C12_EmptyNameRejected ==
    (outcome # "idle" /\ sanitize_input(req.name, sanitize_max_length) = "") =>
        (outcome # "returned" \/ comment = "")

(* the rows of a batch whose own generation fails *)
RowFails(r, row) ==
    \/ ValueError_row(row)
    \/ r = 1 /\ KeyError_v1(int_of(row.att), int_of(row.achieve), int_of(row.target))

(* what a finished run leaves for display and download *)
AddedComments == SubSeq(all_comments, Len(b_before) + 1, Len(all_comments))

BatchOutput == IF b_rev = 1 THEN AddedComments ELSE bulk_results

(* C13: a failing row never aborts the batch: when the run is over, every    *)
(* row that does not fail has its comment in the results, in row order, and  *)
(* exactly the failing rows are reported as row errors.                      *)
C13_PartialFailure ==
    b_status \in {"done", "aborted"} =>
        LET ok == {i \in 1..Len(b_rows) : ~RowFails(b_rev, b_rows[i])}
        IN /\ Len(BatchOutput) = Cardinality(ok)
           /\ row_errors = (1..Len(b_rows)) \ ok

(* C14: get_pronouns returns (he, his) exactly for the spellings of 'male'   *)
(* in any case, (she, her) exactly for those of 'female', and (they, their)  *)
(* for every other label, the empty one included; it always returns.         *)
C14_PronounsByLabel ==
    gp_done =>
        /\ gp_out \in {<<"he", "his">>, <<"she", "her">>, <<"they", "their">>}
        /\ gp_out = <<"he", "his">> <=> gp_label \in CaseVariants("male")
        /\ gp_out = <<"she", "her">> <=> gp_label \in CaseVariants("female")

C14_Witness == gp_done /\ gp_label = "MaLe" /\ gp_out = <<"he", "his">>

(* t in s *)
has_substring(s, t) == \E i \in 1..(Len(s) - Len(t) + 1) : SubSeq(s, i, i + Len(t) - 1) = t

(* C15: no returned comment holds an unsubstituted placeholder: neither     *)
(* '{}' nor '{name}' occurs in it.                                           *)
C15_NoPlaceholderLeft ==
    (outcome = "returned" /\ comment # "") =>
        ~has_substring(comment, "{}") /\ ~has_substring(comment, "{name}")

(* the 1-based positions at which t occurs in s *)
positions(s, t) == {i \in 1..(Len(s) - Len(t) + 1) : SubSeq(s, i, i + Len(t) - 1) = t}

(* C16: an English comment that was not shortened carries, each exactly once *)
(* and in this order after the attitude sentence, a sentence starting        *)
(* 'In reading, ', one starting 'In writing, ', one starting 'For the next   *)
(* term, <pronoun> should ' and one starting 'Additionally, <pronoun>        *)
(* should ', before the closer.                                              *)
C16_EnglishSections ==
    (outcome = "returned" /\ comment # "" /\ req.subject = "English"
                          /\ Len(full) <= TARGET_CHARS) =>
        LET p == get_pronouns(req.gender)[1]
            r == positions(comment, "In reading, ")
            w == positions(comment, "In writing, ")
            t == positions(comment, "For the next term, " \o p \o " should ")
            a == positions(comment, "Additionally, " \o p \o " should ")
        IN /\ Cardinality(r) = 1 /\ Cardinality(w) = 1
           /\ Cardinality(t) = 1 /\ Cardinality(a) = 1
           /\ \A i \in r, j \in w, k \in t, l \in a : 1 < i /\ i < j /\ j < k /\ k < l

(* w occurs in s as a word of its own *)
has_word(s, w) ==
    \E i \in positions(s, w) :
        /\ i = 1 \/ ~IsWordCh(Ch(s, i - 1))
        /\ i + Len(w) > Len(s) \/ ~IsWordCh(Ch(s, i + Len(w)))

(* C17: a Science comment for a named student that was not shortened is     *)
(* made of the attitude sentence, one achievement sentence, one target       *)
(* sentence and the closer: it begins with the opening, holds 'For the next  *)
(* term, <pronoun> should ' once and the closer picked, has no 'In           *)
(* reading,' and no 'In writing,' framing and no 'Additionally,' sentence,   *)
(* and where the writing slots were left out no doubled space, no doubled    *)
(* full stop and no space before a full stop; for gender 'Male' it holds     *)
(* the word 'he' or 'his'.                                                   *)
C17_ScienceSections ==
    (outcome = "returned" /\ comment # "" /\ req.subject = "Science"
                          /\ Len(full) <= TARGET_CHARS
                          /\ sanitize_input(req.name, sanitize_max_length) # "") =>
        LET p == get_pronouns(req.gender)[1]
            opening == sci7_opening[req.opening]
        IN /\ SubSeq(comment, 1, Len(opening)) = opening
           /\ Cardinality(positions(comment, "For the next term, " \o p \o " should ")) = 1
           /\ Cardinality(positions(comment, "For the next term, ")) = 1
           /\ has_substring(comment, sci7_closer[req.closer])
           /\ ~has_substring(comment, "In reading,")
           /\ ~has_substring(comment, "In writing,")
           /\ ~has_substring(comment, "Additionally,")
           /\ ~has_substring(comment, "  ")
           /\ ~has_substring(comment, "..")
           /\ ~has_substring(comment, " .")
           /\ req.gender = "Male" => has_word(comment, "he") \/ has_word(comment, "his")

C17_Witness ==
    /\ outcome = "returned" /\ rev = 1 /\ req.subject = "Science" /\ req.gender = "Male"
    /\ req.name = "Al" /\ full = comment
    /\ has_substring(comment, "For the next term, he should ")

(* str.istitle() on the cased characters: upper case exactly at the start of *)
(* a run of letters                                                          *)
is_title_cased(s) ==
    \A i \in 1..Len(s) :
        is_cased(Ch(s, i)) =>
            (Ch(s, i) \in UpperSet <=> (i = 1 \/ ~is_cased(Ch(s, i - 1))))

(* C18: sanitize_input returns only letters, digits, spaces, apostrophes,    *)
(* hyphens and periods, at most max_length characters, no space at either    *)
(* end, every run of letters starting upper case and continuing lower case,  *)
(* and the empty string for an empty text.                                   *)
C18_SanitizedName ==
    si_done =>
        /\ \A i \in 1..Len(si_out) : isalnum(Ch(si_out, i)) \/ Ch(si_out, i) \in AllowedPunct
        /\ Len(si_out) <= sanitize_max_length
        /\ si_out = str_strip(si_out)
        /\ is_title_cased(si_out)
        /\ si_text = "" => si_out = ""

(* the rows generated so far, in order, and their results *)
GeneratedRows ==
    SelectSeq(SubSeq(b_rows, 1, b_idx), LAMBDA row : ~RowFails(b_rev, row))

GeneratedResults == IF b_rev = 1 THEN AddedComments ELSE results

C20_PronounBeforeVerb ==
    (outcome = "returned" /\ comment # "" /\ frags[2] # "" /\ islower(Head(frags[2]))) =>
        LET subject_pronoun == get_pronouns(req.gender)[1] \o " "
            n == Len(subject_pronoun)
        IN \A i \in positions(comment, frags[2]) :
               i > n /\ SubSeq(comment, i - n, i - 1) = subject_pronoun

(* the closer random.choice picked for the request *)
PickedCloser ==
    IF rev = 1 THEN closer_7_sci[req.closer]
    ELSE CloserPool_v7(<<req.subject, req.year>>)[req.closer]

(* C21: every fragment ends with a full stop before the fragments are        *)
(* joined: in a comment that was not shortened, the achievement fragment     *)
(* and the closer are each followed by a full stop, one appended when the    *)
(* bank text has none, also when an addendum follows the closer.             *)
C21_FragmentsEndWithFullStop ==
    (outcome = "returned" /\ comment # "" /\ Len(full) <= TARGET_CHARS) =>
        \A f \in {frags[2], PickedCloser} :
            \A i \in positions(full, f) :
                endswith(f, ".") \/ Ch(full, i + Len(f)) = "."

(* C22: no returned comment holds two spaces in a row or begins with a       *)
(* space, whatever the name.                                                 *)
C22_SingleSpaces ==
    (outcome = "returned" /\ comment # "") =>
        ~has_substring(comment, "  ") /\ Head(comment) # " "

(* s ends with t *)
has_suffix(s, t) == Len(t) <= Len(s) /\ SubSeq(s, Len(s) - Len(t) + 1, Len(s)) = t

(* C23: a comment that was not shortened ends, when an addendum is supplied, *)
(* with the closer followed by the sanitized addendum, its first character   *)
(* lower case; when none is supplied it ends with the closer.                *)
C23_AddendumLast ==
    (outcome = "returned" /\ comment # "" /\ Len(full) <= TARGET_CHARS) =>
        LET addendum == lowercase_first(sanitize_input(req.attitude_target, sanitize_max_length))
        IN IF req.attitude_target = ""
           THEN has_suffix(full, PickedCloser) \/ has_suffix(full, PickedCloser \o ".")
           ELSE \E stop \in {"", "."}, sep \in {" ", ". "} :
                    has_suffix(full, PickedCloser \o sep \o addendum \o stop)

(* C24: a pronoun token that already is the target pronoun in its            *)
(* capitalisation is returned as it is: He, he, His and his with the pair    *)
(* (he, his); She, she, Her and her with the pair (she, her) under the rules *)
(* that rewrite she and her.                                                 *)
C24_TargetPronounKept ==
    fp_rev # 0 =>
        LET a == Tokens(fp_text)
            b == Tokens(fp_out)
            kept == IF fp_pair = <<"he", "his">> THEN {"He", "he", "His", "his"}
                    ELSE IF fp_pair = <<"she", "her">> /\ fp_rev = 7
                         THEN {"She", "she", "Her", "her"}
                    ELSE {}
        IN /\ Len(a) = Len(b)
           /\ \A i \in 1..Len(a) : a[i] \in kept => b[i] = a[i]

(* C25: validate_upload_rate returns False exactly when less than            *)
(* RATE_LIMIT_SECONDS have passed since last_upload_time, and two calls of   *)
(* process_csv_securely in a row are at least RATE_LIMIT_SECONDS apart.      *)
C25_UploadsRateLimited ==
    /\ s_check.checked => (s_check.returned <=> s_check.elapsed >= RATE_LIMIT_SECONDS)
    /\ Len(s_processed) = 2 => s_processed[2] - s_processed[1] >= RATE_LIMIT_SECONDS

(* C26: of a comment longer than the target whose first target characters   *)
(* hold a full stop, truncate_comment returns the longest prefix of at most  *)
(* target characters that ends with a full stop; a full stop at the position *)
(* of the cut keeps its sentence.                                            *)
C26_LongestSentencePrefix ==
    (tc_done /\ Len(tc_comment) > tc_target
             /\ contains(SubSeq(tc_comment, 1, tc_target), ".")) =>
        LET last == CHOOSE i \in 1..tc_target :
                        /\ Ch(tc_comment, i) = "."
                        /\ \A j \in (i + 1)..tc_target : Ch(tc_comment, j) # "."
        IN tc_out = SubSeq(tc_comment, 1, last)

(* the rules of the revision that ran, for the pair it was given *)
RulesRun == IF fp_rev = 7 THEN rules_v7(fp_pair[1], fp_pair[2]) ELSE rules_v1(fp_pair[1], fp_pair[2])

(* what the first rule that matches token w makes of it *)
FirstRuleImage(rules, w) ==
    LET matching == {k \in 1..Len(rules) : re_sub(rules[k][1], "", w, rules[k][3]) # w}
    IN IF matching = {} THEN w
       ELSE re_sub(rules[Min(matching)][1], rules[Min(matching)][2], w, rules[Min(matching)][3])

(* C27: fix_pronouns_in_text is idempotent, fix(fix(t)) = fix(t), for each   *)
(* pronoun pair and both rule sets, and every token of the result is what    *)
(* the first rule matching it made of it: no later rule rewrote it again     *)
(* into something else.                                                      *)
C27_FixIdempotent ==
    fp_rev # 0 =>
        /\ apply_rules(RulesRun, fp_out) = fp_out
        /\ LET a == Tokens(fp_text)
               b == Tokens(fp_out)
           IN /\ Len(a) = Len(b)
              /\ \A i \in 1..Len(a) : b[i] = FirstRuleImage(RulesRun, a[i])

C27_Witness ==
    /\ fp_rev = 7 /\ fp_pair = <<"she", "her">> /\ fp_text = "his-He"
    /\ fp_out = "her-she"

(* C28: sanitize_input is idempotent: sanitizing its result again returns    *)
(* the result.                                                               *)
C28_SanitizeIdempotent ==
    si_done => sanitize_input(si_out, sanitize_max_length) = si_out

(* C29: a batch run of the revision that appends to all_comments adds one    *)
(* entry for each row that did not raise, in row order, and nothing for a    *)
(* failing row; the entries present before the run stay first and            *)
(* unaltered; the number of comments announced at the end is the number of   *)
(* entries added.                                                            *)
C29_OneEntryPerGeneratedRow ==
    (b_rev = 1 /\ b_status \in {"running", "done"}) =>
        /\ Len(all_comments) >= Len(b_before)
        /\ SubSeq(all_comments, 1, Len(b_before)) = b_before
        /\ Len(AddedComments) = Len(GeneratedRows)
        /\ \A i \in 1..Len(GeneratedRows) :
               AddedComments[i].comment = RowCommentV1(GeneratedRows[i])
        /\ b_status = "done" => announced = Len(AddedComments)

(* C30: after a run of the bulk upload mode has stored bulk_results, the     *)
(* Bulk Results section is displayed by that run and by every later run,     *)
(* as long as the mode selected is the bulk upload mode and the results      *)
(* are still stored.                                                         *)
C30_BulkResultsDisplayed ==
    (s_rev = 7 /\ mode = "Bulk Upload (CSV)" /\ s_bulk_stored) => s_displayed

====
